---- MODULE Spec2Model ----
(***************************************************************************)
(* The E/C index computation of demos/takahashi2011_ECindex.ipynb:         *)
(* compute_alpha, correction_factor and compute_index.                     *)
(*                                                                         *)
(* Numbers.  The notebook computes in IEEE doubles.  The model computes    *)
(* in exact arithmetic over the values  (n/d) / sqrt(2)^h  (h in 0..1),    *)
(* extended with NaN, +inf and -inf, which follow the IEEE rules           *)
(* (0 * inf = NaN, inf - inf = NaN, 1/sqrt(0) = inf, NaN > 0 is false).    *)
(* Rounding error is not modelled.                                         *)
(*                                                                         *)
(* The EOF library (xeofs) is outside the repository.  What it returns for *)
(* the reference slice (two spatial patterns, two explained variances,     *)
(* each pattern with either sign) is the variable eof, drawn in Init from  *)
(* a bounded set and not computed from the data, except that an all-zero   *)
(* slice has explained variance 0.  Its projection is the dot product of a *)
(* time step with a pattern (all cells of the region lie on the equator,   *)
(* where the cos(lat) weight is 1).                                        *)
(***************************************************************************)
EXTENDS Integers, Sequences, FiniteSets, TLC

VARIABLES
    tos_anom,      \* input field: sequence of [time, v], v a function of the grid cells
    base_period,   \* input: <<first year, last year>> of the reference period
    eof,           \* what the EOF library yields for the reference slice
    pc,            \* position in compute_index
    model,         \* the fitted ModeSet (components, explained_variance)
    scale_factor,  \* <<1/sqrt(var1), 1/sqrt(var2)>>
    corr_factor,   \* <<+1/-1, +1/-1>>
    pcs,           \* <<PC1, PC2>>, each a sequence of [time, v]
    ecindex,       \* [E_index, C_index], each a sequence of [time, v]
    pc1_djf,       \* seasonal means of PC1 given to the fit
    pc2_djf,       \* seasonal means of PC2 given to the fit
    result,        \* what compute_alpha returned, or the error raised
    workflow,      \* the data-retrieval notebook cell run: "tos", "thetao" or "none"
    collections,   \* the dataset ids of the catalogue, in order
    position,      \* index in collections of the next id of the dict comprehension
    entries,       \* the dictionary under construction: dataset id -> dataset
    requests,      \* the requests sent to the remote service, with its answers
    outcome        \* "idle", "running", "built" (dictionary assigned) or "raised"

indexvars == <<tos_anom, base_period, eof, pc, model, scale_factor, corr_factor,
               pcs, ecindex, pc1_djf, pc2_djf, result>>

fetchvars == <<workflow, collections, position, entries, requests, outcome>>

vars == <<tos_anom, base_period, eof, pc, model, scale_factor, corr_factor,
          pcs, ecindex, pc1_djf, pc2_djf, result,
          workflow, collections, position, entries, requests, outcome>>

(***************************************************************************)
(* Bounds of the model.                                                    *)
(***************************************************************************)
\* longest time axis of an input field with the default decomposition
MaxLen == 3
\* longest time axis of an input field tried with every decomposition
MaxLenModes == 2

(***************************************************************************)
(* Arithmetic.                                                             *)
(***************************************************************************)
Abs(x) == IF x < 0 THEN -x ELSE x

Sgn(x) == IF x < 0 THEN -1 ELSE IF x > 0 THEN 1 ELSE 0

RECURSIVE GCD(_, _)
GCD(a, b) == IF b = 0 THEN a ELSE GCD(b, a % b)

NaN == [k |-> "nan", n |-> 0, d |-> 1, h |-> 0]

Inf(s) == [k |-> "inf", n |-> s, d |-> 1, h |-> 0]

\* the finite value (n/d) / sqrt(2)^h in lowest terms, d > 0; zero has one form
Fin(n, d, h) ==
    IF n = 0 THEN [k |-> "fin", n |-> 0, d |-> 1, h |-> 0]
    ELSE LET g == GCD(Abs(n), Abs(d))
             s == IF d < 0 THEN -1 ELSE 1
         IN  [k |-> "fin", n |-> (s * n) \div g, d |-> (s * d) \div g, h |-> h]

R(n) == Fin(n, 1, 0)

IsNaN(a) == a.k = "nan"

IsFinite(a) == a.k = "fin"

IsZero(a) == a.k = "fin" /\ a.n = 0

\* a > 0 as the float comparison decides it (false for NaN)
Positive(a) == a.k # "nan" /\ a.n > 0

Neg(a) ==
    IF a.k = "nan" THEN NaN
    ELSE IF a.k = "inf" THEN Inf(-a.n)
    ELSE Fin(-a.n, a.d, a.h)

\* a + b; two finite non-zero operands carry the same power of sqrt(2)
Add(a, b) ==
    IF a.k = "nan" \/ b.k = "nan" THEN NaN
    ELSE IF a.k = "inf" /\ b.k = "inf" THEN (IF a.n = b.n THEN a ELSE NaN)
    ELSE IF a.k = "inf" THEN a
    ELSE IF b.k = "inf" THEN b
    ELSE IF a.n = 0 THEN b
    ELSE IF b.n = 0 THEN a
    ELSE Fin(a.n * b.d + b.n * a.d, a.d * b.d, a.h)

Sub(a, b) == Add(a, Neg(b))

Mul(a, b) ==
    IF a.k = "nan" \/ b.k = "nan" THEN NaN
    ELSE IF a.k = "inf" \/ b.k = "inf"
         THEN (IF a.n = 0 \/ b.n = 0 THEN NaN ELSE Inf(Sgn(a.n) * Sgn(b.n)))
    ELSE IF a.h + b.h = 2 THEN Fin(a.n * b.n, 2 * a.d * b.d, 0)
    ELSE Fin(a.n * b.n, a.d * b.d, a.h + b.h)

\* a / b for a finite b # 0 without a sqrt(2) factor
Div(a, b) == Mul(a, Fin(b.d, b.n, 0))

\* 2 ** (1/2) as a divisor
InvSqrt2 == Fin(1, 1, 1)

\* 1 / np.sqrt(v) for a perfect square v; 1/sqrt(0) is inf
InvSqrt(v) ==
    IF v = 0 THEN Inf(1)
    ELSE Fin(1, CHOOSE r \in 1..v : r * r = v, 0)

RECURSIVE SumSeq(_)
SumSeq(s) == IF s = <<>> THEN R(0) ELSE Add(Head(s), SumSeq(Tail(s)))

(***************************************************************************)
(* Time.  A time stamp is a month, counted as year * 12 + (month - 1).     *)
(***************************************************************************)
YM(y, m) == y * 12 + (m - 1)

Year(t) == t \div 12

Month(t) == (t % 12) + 1

(***************************************************************************)
(* The grid and the program's boxes.                                       *)
(***************************************************************************)
Cells == {"b1", "b2", "e", "out"}

Lat == [c \in Cells |-> IF c = "out" THEN 40 ELSE 0]

Lon == [c \in Cells |-> CASE c = "b1" -> 150 [] c = "b2" -> 170
                          [] c = "e" -> 250 [] c = "out" -> 170]

\* tos_anom.sel(lat=slice(-20, 20), lon=slice(100, 280))
RegionLatMin == -20
RegionLatMax == 20
RegionLonMin == 100
RegionLonMax == 280

\* _subset = dict(lat=slice(-5, 5), lon=slice(140, 180))
BoxLatMin == -5
BoxLatMax == 5
BoxLonMin == 140
BoxLonMax == 180

\* .sel(time=slice("1980", None))
CutoffYear == 1980

InRegion(c) ==
    /\ RegionLatMin <= Lat[c] /\ Lat[c] <= RegionLatMax
    /\ RegionLonMin <= Lon[c] /\ Lon[c] <= RegionLonMax

InBox(c) ==
    /\ BoxLatMin <= Lat[c] /\ Lat[c] <= BoxLatMax
    /\ BoxLonMin <= Lon[c] /\ Lon[c] <= BoxLonMax

(***************************************************************************)
(* Inputs: fields, reference periods and library decompositions.           *)
(***************************************************************************)
SnapZero == [c \in Cells |-> R(0)]

SnapA == [c \in Cells |-> CASE c = "b1" -> R(1) [] c = "b2" -> R(0)
                            [] c = "e" -> R(0) [] c = "out" -> R(5)]

SnapB == [c \in Cells |-> IF c = "out" THEN R(5) ELSE R(1)]

SnapNaN == [c \in Cells |-> NaN]

Snapshots == {SnapZero, SnapA, SnapB, SnapNaN}

Months == {YM(1979, 12), YM(1980, 1), YM(1980, 7), YM(1980, 12),
           YM(1981, 1), YM(1981, 2), YM(1981, 12), YM(1982, 12)}

MonthsModes == {YM(1980, 12), YM(1981, 1), YM(1981, 12)}

BasePeriods == {<<1980, 1982>>, <<1981, 1981>>, <<1990, 1995>>}

RECURSIVE SortedSeq(_)
SortedSeq(S) ==
    IF S = {} THEN <<>>
    ELSE LET m == CHOOSE x \in S : \A y \in S : x <= y
         IN  <<m>> \o SortedSeq(S \ {m})

\* every field over a strictly increasing time axis of at most n of the months in M
Fields(M, n) ==
    UNION { LET ax == SortedSeq(S)
            IN  { [i \in 1..Len(ax) |-> [time |-> ax[i], v |-> d[i]]] :
                    d \in [1..Len(ax) -> Snapshots] } :
            S \in {T \in SUBSET M : Cardinality(T) <= n} }

RegionCells == {c \in Cells : InRegion(c)}

PatA1 == [c \in RegionCells |-> 1]

PatA2 == [c \in RegionCells |-> IF c = "e" THEN -2 ELSE 1]

PatB1 == [c \in RegionCells |-> IF c = "e" THEN 0 ELSE 1]

PatB2 == [c \in RegionCells |-> CASE c = "b1" -> 1 [] c = "b2" -> -1 [] OTHER -> 0]

Flip(s, p) == [c \in DOMAIN p |-> s * p[c]]

\* the pattern pairs the library may return, each mode with either sign
PatternPairs ==
    { <<Flip(s1, b[1]), Flip(s2, b[2])>> :
        s1 \in {1, -1}, s2 \in {1, -1}, b \in {<<PatA1, PatA2>>, <<PatB1, PatB2>>} }

(***************************************************************************)
(* DataArray selections.                                                   *)
(***************************************************************************)
\* tos_anom.sel(lat=slice(-20, 20), lon=slice(100, 280))
SelRegion(da) ==
    [i \in 1..Len(da) |->
        [time |-> da[i].time, v |-> [c \in RegionCells |-> da[i].v[c]]]]

\* .sel(time=slice(*base_period)): whole years, both ends included
InPeriod(t, bp) == bp[1] <= Year(t) /\ Year(t) <= bp[2]

SelTime(da, bp) == SelectSeq(da, LAMBDA e : InPeriod(e.time, bp))

\* time steps without a missing value
HasNaN(v) == \E c \in DOMAIN v : IsNaN(v[c])

ValidSamples(da) == SelectSeq(da, LAMBDA e : ~HasNaN(e.v))

AllZero(da) == \A i \in 1..Len(da) : \A c \in DOMAIN da[i].v : IsZero(da[i].v[c])

\* mutant of FitInput: the fit is given every valid time step of the series
FitInputWholeSeries(field, bp) == ValidSamples(SelRegion(field))

\* the data model.fit is given
FitInput(field, bp) == ValidSamples(SelTime(SelRegion(field), bp))

\* the decompositions the library may return for a field and reference period.
\* What model.fit returns for a slice without samples, when it returns at all,
\* is decided inside the library: any decomposition, also a degenerate one
Decompositions(field, bp, pairs, variances) ==
    LET ref == FitInput(field, bp)
    IN  { [components |-> p, explained_variance |-> ev] :
            p \in pairs,
            ev \in IF ref = <<>> THEN variances \cup {<<0, 0>>}
                   ELSE IF AllZero(ref) THEN {<<0, 0>>} ELSE variances }

None == [k |-> "none"]

NoResult == [status |-> "none"]

\* no data-retrieval cell is run
FetchIdle ==
    /\ workflow = "none"
    /\ collections = <<>>
    /\ position = 1
    /\ entries = <<>>
    /\ requests = <<>>
    /\ outcome = "idle"

InitRest ==
    /\ FetchIdle
    /\ pc = "start"
    /\ model = None
    /\ scale_factor = None
    /\ corr_factor = None
    /\ pcs = None
    /\ ecindex = None
    /\ pc1_djf = None
    /\ pc2_djf = None
    /\ result = NoResult

\* long records, one decomposition
InitSeasons ==
    /\ tos_anom \in Fields(Months, MaxLen)
    /\ base_period \in {<<1980, 1981>>, <<1990, 1995>>}
    /\ eof \in Decompositions(tos_anom, base_period, {<<PatA1, PatA2>>}, {<<4, 1>>})
    /\ InitRest

\* short records, every decomposition
InitModes ==
    /\ tos_anom \in Fields(MonthsModes, MaxLenModes)
    /\ base_period \in BasePeriods
    /\ eof \in Decompositions(tos_anom, base_period, PatternPairs, {<<4, 1>>, <<9, 0>>})
    /\ InitRest

Init == InitSeasons \/ InitModes

(***************************************************************************)
(* The decomposition: model.fit, explained_variance, components, transform.*)
(***************************************************************************)
\* compute_index checks no range: an empty reference slice is handed to
\* model.fit as it is.  Only then may the fit raise; whether it does is decided
\* inside the library
FitMayRaise(field, bp) == FitInput(field, bp) = <<>>

\* scale_factor = 1 / np.sqrt(model.explained_variance())
ScaleFactor(m) == <<InvSqrt(m.explained_variance[1]), InvSqrt(m.explained_variance[2])>>

RECURSIVE Dot(_, _, _)
Dot(v, p, S) ==
    IF S = {} THEN R(0)
    ELSE LET c == CHOOSE x \in S : TRUE
         IN  Add(Mul(v[c], R(p[c])), Dot(v, p, S \ {c}))

\* the mean of a pattern over the box 5S-5N, 140-180E
BoxMean(p) ==
    LET B == {c \in DOMAIN p : InBox(c)}
    IN  IF B = {} THEN NaN
        ELSE Div(Dot([c \in B |-> R(1)], p, B), R(Cardinality(B)))

\* corr_factor[i] = 1 if _eofs.sel(mode=i+1, **_subset).mean() > 0 else -1
correction_factor(m) ==
    << IF Positive(BoxMean(m.components[1])) THEN 1 ELSE -1,
       IF Positive(BoxMean(m.components[2])) THEN 1 ELSE -1 >>

\* mutant of ProjectInput: only the reference period is projected
ProjectRefOnly(field, bp) == SelTime(SelRegion(field), bp)

\* the field model.transform is given: the whole series over the region
ProjectInput(field, bp) == SelRegion(field)

\* model.transform(da): one raw PC series per mode, on the time axis of da;
\* a time step with a missing value yields NaN
Transform(m, da) ==
    [k \in 1..2 |->
        [i \in 1..Len(da) |->
            [time |-> da[i].time,
             v |-> IF HasNaN(da[i].v) THEN NaN
                   ELSE Dot(da[i].v, m.components[k], DOMAIN da[i].v)]]]

\* mutant of ScaledPcs: each mode is given the other mode's factors
ScaledPcsSwapped(raw, sf, cf) ==
    [k \in 1..2 |->
        [i \in 1..Len(raw[k]) |->
            [time |-> raw[k][i].time,
             v |-> Mul(Mul(raw[k][i].v, sf[3 - k]), R(cf[3 - k]))]]]

\* pcs = model.transform(tos_anom) * scale_factor * corr_factor
ScaledPcs(raw, sf, cf) ==
    [k \in 1..2 |->
        [i \in 1..Len(raw[k]) |->
            [time |-> raw[k][i].time,
             v |-> Mul(Mul(raw[k][i].v, sf[k]), R(cf[k]))]]]

(***************************************************************************)
(* The rotation.                                                           *)
(***************************************************************************)
\* eindex = (pc1 - pc2) / (2 ** (1 / 2))
EIndex(pc1, pc2) ==
    [i \in 1..Len(pc1) |->
        [time |-> pc1[i].time, v |-> Mul(Sub(pc1[i].v, pc2[i].v), InvSqrt2)]]

\* mutant of CIndex: the difference, as for E
CIndexDifference(pc1, pc2) ==
    [i \in 1..Len(pc1) |->
        [time |-> pc1[i].time, v |-> Mul(Sub(pc1[i].v, pc2[i].v), InvSqrt2)]]

\* cindex = (pc1 + pc2) / (2 ** (1 / 2))
CIndex(pc1, pc2) ==
    [i \in 1..Len(pc1) |->
        [time |-> pc1[i].time, v |-> Mul(Add(pc1[i].v, pc2[i].v), InvSqrt2)]]

\* ecindex = xr.merge([eindex, cindex])
Merge(e, c) == [E_index |-> e, C_index |-> c]

(***************************************************************************)
(* The seasonal means given to the fit.                                    *)
(***************************************************************************)
\* pc.sel(time=pc.time.dt.month.isin([12, 1, 2]))
SelWinter(s) == SelectSeq(s, LAMBDA e : Month(e.time) \in {12, 1, 2})

\* the start of the quarter (December, March, June, September) holding t
QuarterStart(t) == t - ((t - 2) % 3)

\* mutant of BinMean: a sum that skips missing values, 0 for an empty bin
BinSum(vals) == SumSeq(SelectSeq(vals, LAMBDA a : ~IsNaN(a)))

\* the mean of a bin: missing values are skipped, an empty bin yields NaN
BinMean(vals) ==
    LET kept == SelectSeq(vals, LAMBDA a : ~IsNaN(a))
    IN  IF kept = <<>> THEN NaN ELSE Div(SumSeq(kept), R(Len(kept)))

\* .resample(time="QS-DEC") raises on a series without time steps
ResampleRaises(s) == s = <<>>

\* the errors it raises then, by the version of xarray
ResampleErrors == {"ValueError: must not be empty", "IndexError"}

\* .resample(time="QS-DEC").mean() of a series with time steps: one bin per
\* quarter from the first time stamp's quarter to the last one's, labelled by
\* the quarter's start
ResampleMean(s) ==
    LET first == QuarterStart(s[1].time)
        last == QuarterStart(s[Len(s)].time)
        nbins == ((last - first) \div 3) + 1
    IN  [b \in 1..nbins |->
           LET q == first + 3 * (b - 1)
               members == SelectSeq(s, LAMBDA e : QuarterStart(e.time) = q)
           IN  [time |-> q,
                v |-> BinMean([j \in 1..Len(members) |-> members[j].v])]]

\* .dropna("time")
DropNa(s) == SelectSeq(s, LAMBDA e : ~IsNaN(e.v))

\* mutant of SelFromCutoff: the restriction acts on the relabelled year
SelFromCutoffRelabelled(s) == SelectSeq(s, LAMBDA e : Year(e.time + 12) >= CutoffYear)

\* .sel(time=slice("1980", None))
SelFromCutoff(s) == SelectSeq(s, LAMBDA e : Year(e.time) >= CutoffYear)

\* mutant of Relabel: the labels stay at the season's December
RelabelNone(s) == s

\* x + pd.DateOffset(years=1) on every label
Relabel(s) == [i \in 1..Len(s) |-> [time |-> s[i].time + 12, v |-> s[i].v]]

\* pc1_djf / pc2_djf of compute_index, for a series with a winter month
SeasonalMeans(s) == Relabel(SelFromCutoff(DropNa(ResampleMean(SelWinter(s)))))

(***************************************************************************)
(* compute_alpha: the degree-2 least-squares fit and the sampled curve.    *)
(***************************************************************************)
Values(s) == [i \in 1..Len(s) |-> s[i].v]

Leq(a, b) == a.n * b.d <= b.n * a.d

MinOf(xs) == xs[CHOOSE i \in 1..Len(xs) : \A j \in 1..Len(xs) : Leq(xs[i], xs[j])]

MaxOf(xs) == xs[CHOOSE i \in 1..Len(xs) : \A j \in 1..Len(xs) : Leq(xs[j], xs[i])]

RECURSIVE Pow(_, _)
Pow(a, k) == IF k = 0 THEN R(1) ELSE Mul(a, Pow(a, k - 1))

\* sum of x^k * w over the points
Moment(xs, ws, k) == SumSeq([i \in 1..Len(xs) |-> Mul(Pow(xs[i], k), ws[i])])

Det3(a, b, c) ==
    Add(Sub(Mul(a[1], Sub(Mul(b[2], c[3]), Mul(b[3], c[2]))),
            Mul(a[2], Sub(Mul(b[1], c[3]), Mul(b[3], c[1])))),
        Mul(a[3], Sub(Mul(b[1], c[2]), Mul(b[2], c[1]))))

\* the coefficient of a rank-deficient least-squares problem: numpy returns the
\* minimum-norm solution with a RankWarning; its value is finite and not modelled
MinNorm == [k |-> "minnorm", n |-> 0, d |-> 1, h |-> 0]

RECURSIVE LcmDen(_)
LcmDen(xs) ==
    IF xs = <<>> THEN 1
    ELSE LET l == LcmDen(Tail(xs))
         IN  (l * Head(xs).d) \div GCD(l, Head(xs).d)

\* the values of xs as integer multiples of 1/den
Scaled(xs, den) == [i \in 1..Len(xs) |-> R(xs[i].n * (den \div xs[i].d))]

\* poly.polyfit(x, y, deg=2) on finite points: <<c0, c1, c2>>, by the normal
\* equations when three distinct x exist.  The sums are taken over the points
\* written as integers X = x * dx, Y = y * dy, and the coefficients scaled back.
Polyfit(xs, ys) ==
    LET dx == LcmDen(xs)
        dy == LcmDen(ys)
        X == Scaled(xs, dx)
        Y == Scaled(ys, dy)
        one == [i \in 1..Len(xs) |-> R(1)]
        S(k) == Moment(X, one, k)
        T(k) == Moment(X, Y, k)
        r1 == <<S(0), S(1), S(2)>>
        r2 == <<S(1), S(2), S(3)>>
        r3 == <<S(2), S(3), S(4)>>
        t == <<T(0), T(1), T(2)>>
        Row(r, i, j) == <<IF j = 1 THEN t[i] ELSE r[1], IF j = 2 THEN t[i] ELSE r[2],
                          IF j = 3 THEN t[i] ELSE r[3]>>
        det == Det3(r1, r2, r3)
        back == <<Fin(1, dy, 0), Fin(dx, dy, 0), Fin(dx * dx, dy, 0)>>
    IN  IF IsZero(det)
        THEN IF \A i \in 1..Len(ys) : IsZero(ys[i])
             THEN <<R(0), R(0), R(0)>>
             ELSE <<MinNorm, MinNorm, MinNorm>>
        ELSE [j \in 1..3 |->
                Mul(Div(Det3(Row(r1, 1, j), Row(r2, 2, j), Row(r3, 3, j)), det),
                    back[j])]

\* poly.polyval(x, coefs)
Polyval(x, coefs) ==
    IF coefs[1].k = "minnorm" THEN MinNorm
    ELSE Add(coefs[1], Add(Mul(coefs[2], x), Mul(coefs[3], Mul(x, x))))

\* the lengths np.arange may give when (stop - start) / 0.1 is steps in exact
\* arithmetic: ceil of the quotient computed on doubles.  When steps is not
\* whole the rounding does not matter; when it is whole the quotient comes out
\* at or just above it (arange(0, 0.3 + 0.1, 0.1) has 4 samples,
\* arange(1.0, 1.0 + 0.1, 0.1) has 2, arange(0.5, 0.5 + 0.1, 0.1) has 1)
ArangeLengths(steps) ==
    IF steps.d = 1 THEN {steps.n, steps.n + 1}
    ELSE {(steps.n + steps.d - 1) \div steps.d}

\* the samples lo, lo + 0.1, ... of each length in counts
Samples(lo, counts) ==
    { [k \in 1..count |-> Add(lo, Fin(k - 1, 10, 0))] : count \in counts }

\* mutant of Arange: np.arange(lo, hi, 0.1), the stop not moved past hi
ArangeToMax(lo, hi) ==
    Samples(lo, ArangeLengths(Mul(Sub(hi, lo), R(10))))

\* np.arange(lo, hi + 0.1, 0.1): the sample sequences the doubles may give
Arange(lo, hi) ==
    Samples(lo, ArangeLengths(Add(Mul(Sub(hi, lo), R(10)), R(1))))

Raised(e) == [status |-> "error", error |-> e]

\* mutant of LastCoef: the constant term of the fit
FirstCoef(coefs) == coefs[1]

\* coefs[-1]: polyfit orders the coefficients from the constant term upward
LastCoef(coefs) == coefs[3]

\* the outcomes of compute_alpha(pc1, pc2).  Non-finite values in the
\* least-squares problem make LAPACK either fail (LinAlgError) or yield NaN
\* coefficients, depending on the build; np.arange raises on a non-finite range.
compute_alpha(pc1, pc2) ==
    LET xs == Values(pc1)
        ys == Values(pc2)
    IN  IF Len(xs) = 0 THEN {Raised("TypeError: expected non-empty vector for x")}
        ELSE IF Len(xs) # Len(ys)
        THEN {Raised("TypeError: expected x and y to have same length")}
        ELSE IF \E i \in 1..Len(xs) : ~IsFinite(xs[i])
        THEN {Raised("LinAlgError"), Raised("ValueError: arange")}
        ELSE IF \E i \in 1..Len(ys) : ~IsFinite(ys[i])
        THEN {Raised("LinAlgError")} \cup
             { [status |-> "ok", alpha |-> NaN, xfit |-> xfit,
                fit |-> [i \in 1..Len(xfit) |-> NaN]] :
                 xfit \in Arange(MinOf(xs), MaxOf(xs)) }
        ELSE LET coefs == Polyfit(xs, ys)
             IN  { [status |-> "ok", alpha |-> LastCoef(coefs), xfit |-> xfit,
                    fit |-> [i \in 1..Len(xfit) |-> Polyval(xfit[i], coefs)]] :
                     xfit \in Arange(MinOf(xs), MaxOf(xs)) }

(***************************************************************************)
(* compute_index, step by step.                                            *)
(***************************************************************************)
\* model.fit(tos_anom.sel(time=slice(*base_period)), dim="time") and scale_factor
FitModes ==
    /\ pc = "start"
    /\ model' = eof
    /\ scale_factor' = ScaleFactor(eof)
    /\ pc' = "fitted"
    /\ UNCHANGED <<fetchvars, tos_anom, base_period, eof, corr_factor, pcs, ecindex,
                   pc1_djf, pc2_djf, result>>

\* model.fit raises an error of the library's own: it leaves compute_index
FitFails ==
    /\ pc = "start"
    /\ FitMayRaise(tos_anom, base_period)
    /\ result' = Raised("error raised inside model.fit")
    /\ pc' = "error"
    /\ UNCHANGED <<fetchvars, tos_anom, base_period, eof, model, scale_factor, corr_factor,
                   pcs, ecindex, pc1_djf, pc2_djf>>

\* corr_factor = correction_factor(model); pcs = model.transform(...) * ... * ...
Project ==
    /\ pc = "fitted"
    /\ corr_factor' = correction_factor(model)
    /\ pcs' = ScaledPcs(Transform(model, ProjectInput(tos_anom, base_period)),
                        scale_factor, correction_factor(model))
    /\ pc' = "projected"
    /\ UNCHANGED <<fetchvars, tos_anom, base_period, eof, model, scale_factor, ecindex,
                   pc1_djf, pc2_djf, result>>

\* pc1, pc2, eindex, cindex, ecindex
Rotate ==
    /\ pc = "projected"
    /\ ecindex' = Merge(EIndex(pcs[1], pcs[2]), CIndex(pcs[1], pcs[2]))
    /\ pc' = "rotated"
    /\ UNCHANGED <<fetchvars, tos_anom, base_period, eof, model, scale_factor, corr_factor,
                   pcs, pc1_djf, pc2_djf, result>>

\* pc1_djf: .resample raises, the PC series holding no winter month; the
\* error leaves compute_index
SeasonalFails ==
    /\ pc = "rotated"
    /\ ResampleRaises(SelWinter(pcs[1]))
    /\ \E e \in ResampleErrors : result' = Raised(e)
    /\ pc' = "error"
    /\ UNCHANGED <<fetchvars, tos_anom, base_period, eof, model, scale_factor, corr_factor,
                   pcs, ecindex, pc1_djf, pc2_djf>>

\* pc1_djf and pc2_djf (PC1 and PC2 are on the same time axis)
Seasonal ==
    /\ pc = "rotated"
    /\ ~ResampleRaises(SelWinter(pcs[1]))
    /\ pc1_djf' = SeasonalMeans(pcs[1])
    /\ pc2_djf' = SeasonalMeans(pcs[2])
    /\ pc' = "seasonal"
    /\ UNCHANGED <<fetchvars, tos_anom, base_period, eof, model, scale_factor, corr_factor,
                   pcs, ecindex, result>>

\* alpha, xfit, fit = compute_alpha(pc1_djf, pc2_djf); return
AlphaReturns ==
    /\ pc = "seasonal"
    /\ \E r \in compute_alpha(pc1_djf, pc2_djf) :
          /\ r.status = "ok"
          /\ result' = r
    /\ pc' = "done"
    /\ UNCHANGED <<fetchvars, tos_anom, base_period, eof, model, scale_factor, corr_factor,
                   pcs, ecindex, pc1_djf, pc2_djf>>

\* compute_alpha raises: the error leaves compute_index
AlphaRaises ==
    /\ pc = "seasonal"
    /\ \E r \in compute_alpha(pc1_djf, pc2_djf) :
          /\ r.status = "error"
          /\ result' = r
    /\ pc' = "error"
    /\ UNCHANGED <<fetchvars, tos_anom, base_period, eof, model, scale_factor, corr_factor,
                   pcs, ecindex, pc1_djf, pc2_djf>>

Next ==
    \/ FitModes
    \/ FitFails
    \/ Project
    \/ Rotate
    \/ SeasonalFails
    \/ Seasonal
    \/ AlphaReturns
    \/ AlphaRaises

Spec == Init /\ [][Next]_vars

(***************************************************************************)
(* The data-retrieval notebook: get_pacific_ocean and the dictionaries     *)
(* sst_data (tos workflow) and thetao_data (thetao workflow).              *)
(***************************************************************************)
MaxCollections == 3

DatasetIds == {"CMIP6.a", "CMIP6.b", "CMIP6.c"}

\* collections = cat.df.id.apply(keep_ds_id).to_list(): one id per catalogue
\* row, an id possibly more than once
Catalogues == UNION { [1..n -> DatasetIds] : n \in 0..MaxCollections }

\* wf = ops.Regrid(ops.Subset(ops.Input(variable, [dataset_id]), ...), ...)
Workflow(w, dataset_id) ==
    IF w = "tos"
    THEN [variable |-> "tos", id |-> dataset_id,
          time |-> "1850-01-01/1875-01-31", area |-> "100,-20,280,20",
          level |-> "none", method |-> "bilinear", grid |-> "1deg"]
    ELSE [variable |-> "thetao", id |-> dataset_id,
          time |-> "1850-01-01/1851-01-31", area |-> "100,-10,280,10",
          level |-> "0/50", method |-> "billinear", grid |-> "2pt5deg"]

\* resp.datasets()[0]
RemoteDataset(dataset_id) == [empty |-> FALSE, from |-> dataset_id]

\* xr.Dataset()
EmptyDataset == [empty |-> TRUE, from |-> "none"]

\* get_pacific_ocean(dataset_id) of workflow w when the response has resp.ok = ok
get_pacific_ocean(w, dataset_id, ok) ==
    IF ok THEN [status |-> "ok", ds |-> RemoteDataset(dataset_id)]
    ELSE IF w = "tos" THEN Raised("ValueError")
    ELSE [status |-> "ok", ds |-> EmptyDataset]

\* compute_index is not run
IndexIdle ==
    /\ tos_anom = <<>>
    /\ base_period = <<0, 0>>
    /\ eof = None
    /\ pc = "idle"
    /\ model = None
    /\ scale_factor = None
    /\ corr_factor = None
    /\ pcs = None
    /\ ecindex = None
    /\ pc1_djf = None
    /\ pc2_djf = None
    /\ result = NoResult

InitFetch ==
    /\ IndexIdle
    /\ workflow \in {"tos", "thetao"}
    /\ collections \in Catalogues
    /\ position = 1
    /\ entries = <<>>
    /\ requests = <<>>
    /\ outcome = "running"

\* one item of {dset: get_pacific_ocean(dset) for dset in collections}:
\* the request is sent once and what get_pacific_ocean returns is stored
StoreDataset ==
    /\ outcome = "running"
    /\ position <= Len(collections)
    /\ \E ok \in BOOLEAN :
          LET dset == collections[position]
              r == get_pacific_ocean(workflow, dset, ok)
          IN  /\ r.status = "ok"
              /\ requests' = Append(requests, [wf |-> Workflow(workflow, dset), ok |-> ok])
              /\ entries' = (dset :> r.ds) @@ entries
    /\ position' = position + 1
    /\ UNCHANGED <<indexvars, workflow, collections, outcome>>

\* get_pacific_ocean raises: the error leaves the comprehension, the
\* dictionary is not assigned
FetchRaises ==
    /\ outcome = "running"
    /\ position <= Len(collections)
    /\ \E ok \in BOOLEAN :
          LET dset == collections[position]
              r == get_pacific_ocean(workflow, dset, ok)
          IN  /\ r.status = "error"
              /\ requests' = Append(requests, [wf |-> Workflow(workflow, dset), ok |-> ok])
    /\ outcome' = "raised"
    /\ UNCHANGED <<indexvars, workflow, collections, position, entries>>

\* the comprehension is exhausted: sst_data / thetao_data is assigned
AssignData ==
    /\ outcome = "running"
    /\ position > Len(collections)
    /\ outcome' = "built"
    /\ UNCHANGED <<indexvars, workflow, collections, position, entries, requests>>

NextFetch ==
    \/ StoreDataset
    \/ FetchRaises
    \/ AssignData

SpecFetch == InitFetch /\ [][NextFetch]_vars

(***************************************************************************)
(* Properties.                                                             *)
(***************************************************************************)
Returned == pc = "done"

Times(s) == [i \in 1..Len(s) |-> s[i].time]

\* ecindex as compute_index derives it from a ModeSet md
IndexOf(md, field, bp) ==
    LET p == ScaledPcs(Transform(md, ProjectInput(field, bp)),
                       ScaleFactor(md), correction_factor(md))
    IN  Merge(EIndex(p[1], p[2]), CIndex(p[1], p[2]))

\* md with the spatial pattern of mode m negated
Negated(md, m) ==
    [md EXCEPT !.components = [@ EXCEPT ![m] = Flip(-1, @)]]

\* C1 (as claimed): had the library returned either mode's pattern with the
\* opposite sign, compute_index would return the same E_index and C_index.
C1_SignInvariance ==
    Returned =>
        \A m \in 1..2 : IndexOf(Negated(model, m), tos_anom, base_period) = ecindex

\* C1, the part that holds: the factor compensates a sign change of every mode
\* whose mean over the box is not zero.
C1_SignInvarianceNonZeroMean ==
    Returned =>
        \A m \in 1..2 :
            ~IsZero(BoxMean(model.components[m])) =>
                IndexOf(Negated(model, m), tos_anom, base_period) = ecindex

\* C2: at every time step of the returned indices,
\* E_index = (PC1 - PC2)/sqrt(2) and C_index = (PC1 + PC2)/sqrt(2).
C2_Rotation ==
    Returned =>
        /\ Len(ecindex.E_index) = Len(pcs[1])
        /\ Len(ecindex.C_index) = Len(pcs[1])
        /\ \A i \in 1..Len(pcs[1]) :
              /\ ecindex.E_index[i].time = pcs[1][i].time
              /\ ecindex.C_index[i].time = pcs[1][i].time
              /\ ecindex.E_index[i].v
                    = Mul(Add(pcs[1][i].v, Neg(pcs[2][i].v)), Fin(1, 1, 1))
              /\ ecindex.C_index[i].v
                    = Mul(Add(pcs[1][i].v, pcs[2][i].v), Fin(1, 1, 1))

\* C2 witness: indices returned with a time step where PC1 and PC2 are finite,
\* non-zero and different.
C2_Witness ==
    /\ Returned
    /\ \E i \in 1..Len(pcs[1]) :
          /\ IsFinite(pcs[1][i].v) /\ ~IsZero(pcs[1][i].v)
          /\ IsFinite(pcs[2][i].v) /\ ~IsZero(pcs[2][i].v)
          /\ pcs[1][i].v # pcs[2][i].v

\* C3 (as claimed): at every time step (E + C)/sqrt(2) is the returned PC1 and
\* (C - E)/sqrt(2) is the returned PC2.
C3_RoundTrip ==
    Returned =>
        \A i \in 1..Len(pcs[1]) :
            /\ Mul(Add(ecindex.E_index[i].v, ecindex.C_index[i].v), InvSqrt2)
                  = pcs[1][i].v
            /\ Mul(Sub(ecindex.C_index[i].v, ecindex.E_index[i].v), InvSqrt2)
                  = pcs[2][i].v

\* C3, the part that holds: the round trip at the time steps where both PCs
\* are finite or both are missing.
C3_RoundTripFinite ==
    Returned =>
        \A i \in 1..Len(pcs[1]) :
            (pcs[1][i].v.k = pcs[2][i].v.k /\ pcs[1][i].v.k # "inf") =>
                /\ Mul(Add(ecindex.E_index[i].v, ecindex.C_index[i].v), InvSqrt2)
                      = pcs[1][i].v
                /\ Mul(Sub(ecindex.C_index[i].v, ecindex.E_index[i].v), InvSqrt2)
                      = pcs[2][i].v

\* the seasonal means were computed
SeasonsTaken == pc \in {"seasonal", "done"}

Djf(k) == IF k = 1 THEN pc1_djf ELSE pc2_djf

\* the December, January and February of the season of year y
SeasonMonths(y) == {YM(y - 1, 12), YM(y, 1), YM(y, 2)}

\* C4: every seasonal mean in the fit input is labelled with the year of its
\* season's January and February (the December's year plus one): it is the mean
\* of the winter months of the PC series that belong to the label's year.
C4_SeasonalRelabeling ==
    SeasonsTaken =>
        \A k \in 1..2 : \A j \in 1..Len(Djf(k)) :
            LET y == Year(Djf(k)[j].time)
                mem == SelectSeq(pcs[k], LAMBDA e : /\ e.time \in SeasonMonths(y)
                                                     /\ ~IsNaN(e.v))
            IN  /\ mem # <<>>
                /\ Djf(k)[j].v = Div(SumSeq(Values(mem)), R(Len(mem)))

\* C4 witness: the season December 1980 - February 1981 is in the record and
\* reaches the fit labelled 1981.
C4_Witness ==
    /\ Returned
    /\ SeasonMonths(1981) \subseteq {tos_anom[i].time : i \in 1..Len(tos_anom)}
    /\ \E j \in 1..Len(pc1_djf) :
          Year(pc1_djf[j].time) = 1981 /\ ~IsZero(pc1_djf[j].v)

\* C5 (as claimed): with fewer than 3 seasonal points compute_index does not
\* return (the fit fails).
C5_DegenerateFit ==
    Returned => (Len(pc1_djf) >= 3 /\ Len(pc2_djf) >= 3)

AllZeroField ==
    /\ Len(tos_anom) > 0
    /\ \A i \in 1..Len(tos_anom) : \A c \in Cells : IsZero(tos_anom[i].v[c])

EmptySelection == SelTime(SelRegion(tos_anom), base_period) = <<>>

\* C6: for an all-zero field over a valid reference period compute_index either
\* returns PCs, E_index, C_index that are zero everywhere and alpha = 0, or
\* ends with an error.
C6_AllZero ==
    (AllZeroField /\ ~EmptySelection) =>
        /\ Returned =>
              /\ \A k \in 1..2 : \A i \in 1..Len(pcs[k]) : IsZero(pcs[k][i].v)
              /\ \A i \in 1..Len(ecindex.E_index) :
                    IsZero(ecindex.E_index[i].v) /\ IsZero(ecindex.C_index[i].v)
              /\ IsZero(result.alpha)
        /\ pc = "seasonal" =>
              \A r \in compute_alpha(pc1_djf, pc2_djf) :
                  r.status = "error" \/ IsZero(r.alpha)
        /\ pc = "error" => result.status = "error"

\* C6 witness: an all-zero field with a winter month from 1980 on and a valid
\* reference period has ended with an error.
C6_Witness ==
    /\ AllZeroField /\ ~EmptySelection
    /\ \E i \in 1..Len(tos_anom) : tos_anom[i].time = YM(1980, 12)
    /\ pc = "error"
    /\ result.status = "error"

\* C7 (as claimed): when the reference period selects no time step,
\* compute_index computes nothing and ends with a range error.
C7_OutOfRange ==
    EmptySelection =>
        /\ pc \in {"start", "error"}
        /\ pc = "error" => result = Raised("range error")

\* C7, the part that holds: an error raised at the fit is raised only for a
\* reference slice without samples, inside the library, and leaves nothing
\* computed.
C7_FitErrorLeavesNothing ==
    (pc = "error" /\ result = Raised("error raised inside model.fit")) =>
        /\ FitMayRaise(tos_anom, base_period)
        /\ model = None /\ scale_factor = None
        /\ pcs = None /\ ecindex = None

\* C8: the returned E_index and C_index are on the time axis of the input.
C8_TimeAxis ==
    Returned =>
        /\ Times(ecindex.E_index) = Times(tos_anom)
        /\ Times(ecindex.C_index) = Times(tos_anom)

\* C8 witness: indices returned for a field with a time step before the
\* reference period and before 1980, and one after the reference period.
C8_Witness ==
    /\ Returned
    /\ \E i \in 1..Len(tos_anom) :
          Year(tos_anom[i].time) < base_period[1] /\ Year(tos_anom[i].time) < CutoffYear
    /\ \E i \in 1..Len(tos_anom) : Year(tos_anom[i].time) > base_period[2]

\* C9 (as claimed): a missing PC value is missing in E_index and C_index at
\* its time step, the full-length series lose no time step, and a missing
\* value leaves the seasonal path only by dropna: no seasonal mean given to
\* the fit comes from a season with a missing month.
C9_MissingValues ==
    Returned =>
        /\ Times(ecindex.E_index) = Times(pcs[1])
        /\ \A i \in 1..Len(pcs[1]) :
              (IsNaN(pcs[1][i].v) \/ IsNaN(pcs[2][i].v)) =>
                  (IsNaN(ecindex.E_index[i].v) /\ IsNaN(ecindex.C_index[i].v))
        /\ \A k \in 1..2 : \A j \in 1..Len(Djf(k)) :
              \A i \in 1..Len(pcs[k]) :
                  pcs[k][i].time \in SeasonMonths(Year(Djf(k)[j].time))
                      => ~IsNaN(pcs[k][i].v)

\* C9, the part that holds: the propagation into the full-length indices.
C9_FullSeriesPropagation ==
    Returned =>
        /\ Times(ecindex.E_index) = Times(pcs[1])
        /\ Times(ecindex.C_index) = Times(pcs[1])
        /\ \A i \in 1..Len(pcs[1]) :
              (IsNaN(pcs[1][i].v) \/ IsNaN(pcs[2][i].v)) =>
                  (IsNaN(ecindex.E_index[i].v) /\ IsNaN(ecindex.C_index[i].v))

\* C10 (as claimed): every seasonal mean given to the fit is the mean of a
\* season whose December, January and February are all in the PC series.
C10_IncompleteSeasonsDropped ==
    SeasonsTaken =>
        \A k \in 1..2 : \A j \in 1..Len(Djf(k)) :
            SeasonMonths(Year(Djf(k)[j].time)) \subseteq
                {pcs[k][i].time : i \in 1..Len(pcs[k])}

\* the sign-correction factors were computed
Corrected == pc \in {"projected", "rotated", "seasonal", "done"}

\* C11 (as claimed): for each mode, correction_factor returns -1 exactly when
\* the mean of the mode's pattern over the box is negative and +1 otherwise,
\* and the mean over the box after applying the factor is positive.
C11_SignRule ==
    Corrected =>
        \A m \in 1..2 :
            LET mean == BoxMean(model.components[m])
            IN  /\ corr_factor[m] = (IF Positive(Neg(mean)) THEN -1 ELSE 1)
                /\ Positive(Mul(mean, R(corr_factor[m])))

\* C11, the part that holds: for a mean over the box that is not zero the
\* factor is -1 exactly when the mean is negative, and the corrected mean is
\* positive.
C11_SignRuleNonZeroMean ==
    Corrected =>
        \A m \in 1..2 :
            LET mean == BoxMean(model.components[m])
            IN  ~IsZero(mean) =>
                    /\ corr_factor[m] = (IF Positive(Neg(mean)) THEN -1 ELSE 1)
                    /\ Positive(Mul(mean, R(corr_factor[m])))

\* the fields that agree with field at every time step inside the reference
\* period: any values at the time steps outside it, or no such time steps
Variants(field, bp) ==
    { [i \in 1..Len(field) |->
          IF InPeriod(field[i].time, bp) THEN field[i]
          ELSE [time |-> field[i].time, v |-> d[i]]] :
        d \in [1..Len(field) -> Snapshots] }
    \cup {SelTime(field, bp)}

\* C12: the modes, the scale factors and the sign factors depend only on the
\* field inside the reference period: every field that agrees with the input
\* at each time step of the reference period makes the fit raise or succeed
\* alike and admits the same decompositions; the factors are functions of the
\* fitted modes, and the projection and all later steps leave the modes as
\* the fit returned them.
C12_ReferenceIsolation ==
    /\ Corrected =>
          /\ model = eof
          /\ scale_factor = ScaleFactor(model)
          /\ corr_factor = correction_factor(model)
    /\ pc \in {"start", "projected"} =>
          \A f \in Variants(tos_anom, base_period) :
              /\ FitMayRaise(f, base_period) <=> FitMayRaise(tos_anom, base_period)
              /\ \A ev \in {<<4, 1>>, <<9, 0>>} :
                    Decompositions(f, base_period, PatternPairs, {ev})
                        = Decompositions(tos_anom, base_period, PatternPairs, {ev})
              /\ pc = "projected" =>
                    model \in Decompositions(f, base_period, PatternPairs,
                                             {<<4, 1>>, <<9, 0>>})

\* C12 witness: compute_index returned for a field with a non-zero sample
\* inside the reference period and a different non-zero sample outside it,
\* the full series having been projected.
C12_Witness ==
    /\ Returned
    /\ ~AllZero(FitInput(tos_anom, base_period))
    /\ \E i \in 1..Len(tos_anom) :
          /\ ~InPeriod(tos_anom[i].time, base_period)
          /\ tos_anom[i].v = SnapB
          /\ ~IsZero(pcs[1][i].v)
    /\ Cardinality(Variants(tos_anom, base_period)) > 1

\* the part of a series from December of the cutoff year onward
FromCutoffDecember(s) == SelectSeq(s, LAMBDA e : e.time >= YM(CutoffYear, 12))

\* C13: every point of the fit input is a season whose starting December is
\* in 1980 or later (the restriction acts on the December label, before the
\* relabelling), so every label is 1981 or later, and no time step before
\* December 1980 contributes: the fit input is what the series from December
\* 1980 onward alone would give (no point, when that series has no winter
\* month).
C13_SeasonRestriction ==
    SeasonsTaken =>
        \A k \in 1..2 :
            /\ \A j \in 1..Len(Djf(k)) :
                  /\ Month(Djf(k)[j].time) = 12
                  /\ Year(Djf(k)[j].time - 12) >= CutoffYear
                  /\ Year(Djf(k)[j].time) >= CutoffYear + 1
            /\ LET later == FromCutoffDecember(pcs[k])
               IN  IF ResampleRaises(SelWinter(later)) THEN Djf(k) = <<>>
                   ELSE Djf(k) = SeasonalMeans(later)

\* C13 witness: the record holds a valid January 1980 (season of December
\* 1979) and a later season; only the later season is in the fit input.
C13_Witness ==
    /\ Returned
    /\ \E i \in 1..Len(pcs[1]) :
          /\ pcs[1][i].time = YM(1980, 1)
          /\ IsFinite(pcs[1][i].v) /\ ~IsZero(pcs[1][i].v)
    /\ Len(pc1_djf) >= 1
    /\ Year(pc1_djf[1].time) = 1981

\* the raw projection of the field's time step i onto mode m
RawProjection(m, i) ==
    LET snap == [c \in RegionCells |-> tos_anom[i].v[c]]
    IN  IF HasNaN(snap) THEN NaN ELSE Dot(snap, model.components[m], RegionCells)

\* C14: for each mode m and every time step t the returned pcs value is the
\* raw projection of the field at t onto mode m, times 1/sqrt(explained
\* variance of mode m), times the sign-correction factor of mode m.
C14_Scaling ==
    Returned =>
        \A m \in 1..2 :
            /\ Len(pcs[m]) = Len(tos_anom)
            /\ \A i \in 1..Len(tos_anom) :
                  /\ pcs[m][i].time = tos_anom[i].time
                  /\ pcs[m][i].v =
                        Mul(Mul(RawProjection(m, i),
                                InvSqrt(model.explained_variance[m])),
                            R(corr_factor[m]))

\* C14 witness: the two modes differ in explained variance and in sign factor,
\* and a time step has non-zero finite values on both modes.
C14_Witness ==
    /\ Returned
    /\ model.explained_variance = <<4, 1>>
    /\ corr_factor[1] # corr_factor[2]
    /\ \E i \in 1..Len(pcs[1]) :
          /\ IsFinite(pcs[1][i].v) /\ ~IsZero(pcs[1][i].v)
          /\ IsFinite(pcs[2][i].v) /\ ~IsZero(pcs[2][i].v)

\* three finite seasonal points with pairwise distinct PC1 values
ThreeDistinct ==
    /\ Len(pc1_djf) = 3 /\ Len(pc2_djf) = 3
    /\ \A j \in 1..3 : IsFinite(pc1_djf[j].v) /\ IsFinite(pc2_djf[j].v)
    /\ \A i, j \in 1..3 : i # j => pc1_djf[i].v # pc1_djf[j].v

\* the x^2 coefficient of the parabola through three points: the second
\* divided difference of y over x
SecondDifference(xs, ys) ==
    Div(Sub(Div(Sub(ys[3], ys[2]), Sub(xs[3], xs[2])),
            Div(Sub(ys[2], ys[1]), Sub(xs[2], xs[1]))),
        Sub(xs[3], xs[1]))

\* C15: with PC1 as x and PC2 as y, for seasonal points that lie exactly on a
\* parabola y = c0 + c1*x + c2*x^2 (three points with distinct x always do)
\* the returned alpha is c2, the coefficient of the x^2 term.
C15_QuadraticCoefficient ==
    (Returned /\ ThreeDistinct) =>
        result.alpha = SecondDifference(Values(pc1_djf), Values(pc2_djf))

\* C15 witness: three seasons with distinct PC1 values, two of them with the
\* same PC2 value, that are not on a line: alpha is not zero.
C15_Witness ==
    /\ Returned
    /\ ThreeDistinct
    /\ ~IsZero(result.alpha)
    /\ \E i, j \in 1..3 : i # j /\ pc2_djf[i].v = pc2_djf[j].v

\* the x samples start at the minimum seasonal PC1 and advance in steps of 0.1
SamplesFromMin ==
    /\ Len(result.xfit) >= 1
    /\ result.xfit[1] = MinOf(Values(pc1_djf))
    /\ \A i \in 1..(Len(result.xfit) - 1) :
          Sub(result.xfit[i + 1], result.xfit[i]) = Fin(1, 10, 0)

\* fit holds the fitted polynomial at each x sample (NaN when the fit is NaN)
FitAtSamples ==
    /\ Len(result.fit) = Len(result.xfit)
    /\ \A i \in 1..Len(result.xfit) :
          result.fit[i] =
              IF \E j \in 1..Len(pc2_djf) : ~IsFinite(pc2_djf[j].v) THEN NaN
              ELSE Polyval(result.xfit[i],
                           Polyfit(Values(pc1_djf), Values(pc2_djf)))

LastSample == result.xfit[Len(result.xfit)]

\* C16 (as claimed): the x samples start at the minimum seasonal PC1, advance
\* in steps of 0.1, none exceeds the maximum seasonal PC1 and the last one is
\* within 0.1 of it; fit holds the fitted curve at each sample.
C16_SamplingWithinRange ==
    Returned =>
        /\ SamplesFromMin
        /\ \A i \in 1..Len(result.xfit) :
              Leq(result.xfit[i], MaxOf(Values(pc1_djf)))
        /\ Positive(Sub(Fin(1, 10, 0), Sub(MaxOf(Values(pc1_djf)), LastSample)))
        /\ FitAtSamples

\* C16 (amended): the x samples start at the minimum seasonal PC1, advance in
\* steps of 0.1 and cover the observed range: the last sample is at or above
\* the maximum seasonal PC1 and at most 0.1 above it; fit holds the fitted
\* curve at each sample.
C16_SamplingCoversRange ==
    Returned =>
        /\ SamplesFromMin
        /\ Leq(MaxOf(Values(pc1_djf)), LastSample)
        /\ Leq(Sub(LastSample, MaxOf(Values(pc1_djf))), Fin(1, 10, 0))
        /\ FitAtSamples

\* C16 witness: two seasons whose PC1 range is a multiple of 0.1, the last
\* of several samples lying 0.1 above the maximum, and the fit is not NaN.
C16_Witness ==
    /\ Returned
    /\ Len(pc1_djf) >= 2
    /\ Len(result.xfit) >= 3
    /\ Sub(LastSample, MaxOf(Values(pc1_djf))) = Fin(1, 10, 0)
    /\ ~IsNaN(result.alpha)

\* one point per DJF season: December labels in increasing order, each of a
\* season with a winter month in the series, none of another quarter
OnePerWinter(k) ==
    /\ \A j \in 1..Len(Djf(k)) :
          /\ Month(Djf(k)[j].time) = 12
          /\ \E i \in 1..Len(pcs[k]) :
                pcs[k][i].time \in SeasonMonths(Year(Djf(k)[j].time))
    /\ \A j \in 1..(Len(Djf(k)) - 1) : Djf(k)[j].time < Djf(k)[j + 1].time

\* C17 (as claimed): pc1_djf and pc2_djf given to compute_alpha hold the same
\* number of points with the same season labels in the same order, one point
\* per DJF season and none for the other quarters, also when dropna removes a
\* season from one of the two series.
C17_Pairing ==
    SeasonsTaken =>
        /\ Len(pc1_djf) = Len(pc2_djf)
        /\ Times(pc1_djf) = Times(pc2_djf)
        /\ OnePerWinter(1)
        /\ OnePerWinter(2)

\* C17, the part that holds: each series has one point per DJF season and
\* none for the other quarters, and the two series are paired whenever both
\* explained variances are non-zero.
C17_PairingNonZeroVariance ==
    SeasonsTaken =>
        /\ OnePerWinter(1)
        /\ OnePerWinter(2)
        /\ (model.explained_variance[1] # 0 /\ model.explained_variance[2] # 0) =>
              Times(pc1_djf) = Times(pc2_djf)

\* the dataset ids of the requests that failed (resp.ok false)
FailedIds == {requests[i].wf.id : i \in {j \in 1..Len(requests) : ~requests[j].ok}}

\* every item of collections already visited was requested exactly once, in
\* order: no request is sent again after its answer
NeverRetried ==
    /\ Len(requests) = (IF outcome = "raised" THEN position ELSE position - 1)
    /\ \A i \in 1..Len(requests) : requests[i].wf.id = collections[i]

\* a failed response ends the retrieval with an error: it is the last request
FailureRaises ==
    \A i \in 1..Len(requests) :
        ~requests[i].ok => (outcome = "raised" /\ i = Len(requests))

\* C18 (as claimed): a failed response is reported to the caller (the failing
\* request is the last one sent and the error is raised), no request is sent
\* again, and a failed response is never turned into data: every dictionary
\* entry is the dataset of a successful response, and an assigned dictionary
\* has one such entry per collection id, every request having succeeded.
C18_FailuresReported ==
    /\ NeverRetried
    /\ FailureRaises
    /\ \A d \in DOMAIN entries : entries[d] = RemoteDataset(d)
    /\ outcome = "built" =>
          /\ DOMAIN entries = {collections[i] : i \in 1..Len(collections)}
          /\ FailedIds = {}

\* C18, the part that holds: no request is sent again; an assigned dictionary
\* has one entry per collection id; in the tos workflow a failed response
\* raises ValueError, every entry is the dataset of a successful response and
\* the dictionary is assigned only if every request succeeded.
C18_TosFailuresReported ==
    /\ NeverRetried
    /\ outcome = "built" =>
          DOMAIN entries = {collections[i] : i \in 1..Len(collections)}
    /\ workflow = "tos" =>
          /\ FailureRaises
          /\ \A d \in DOMAIN entries : entries[d] = RemoteDataset(d)
          /\ outcome = "built" => FailedIds = {}

====
